---- MODULE Spec2Model ----
(***************************************************************************)
(* Brute-force and Monte-Carlo solvers for small integer LPs               *)
(* (brute_force_lp/core.py, brute_force_lp/friendly.py), the light         *)
(* validation of lp_parser/core.py and agent_toolkit/solve.py.             *)
(*                                                                         *)
(* A problem description (the Python dict `lp`) is the record              *)
(*   [keys, vars, objective, constraints]                                  *)
(* keys        : the top-level keys the dict has                           *)
(* vars        : the dict lp["vars"] in insertion order, <<[name, ub]>>    *)
(* objective   : [sense, coeff]; sense NoKey when the key is absent        *)
(* constraints : <<[name, coeff, sense, rhs]>>; sense NoKey when absent    *)
(* A coefficient mapping is a function from the names it lists to Int.     *)
(* Python floats -inf / +inf and the integers are the records ExtNum.      *)
(***************************************************************************)
EXTENDS Integers, Sequences, FiniteSets, TLC

\* ------------------------------------------------------------------ bounds
MaxUb      == 2      \* largest upper bound of a variable
MaxStep    == 2      \* largest grid step
MaxSamples == 12     \* largest num_samples of sample_lp
MaxShort   == 2      \* largest num_samples on the larger grids

VarNames  == <<"x", "y">>        \* names a description may declare, in order
CoeffVals == {-1, 0, 1}          \* coefficient values
RhsVals   == {-1, 0, 1, 2}         \* right-hand sides
NoKey     == "(absent)"          \* a dict key that is not there
ObjSenses == {NoKey, "max", "min", "MIN"}
ConSenses == {NoKey, "<=", ">=", "="}
Keys      == {"objective", "vars", "constraints"}

\* ------------------------------------------------- numbers with infinities
Num(n)  == [inf |-> 0, n |-> n]
NegInf  == [inf |-> -1, n |-> 0]
PosInf  == [inf |-> 1, n |-> 0]

\* a > b on Python floats/ints
Gt(a, b) == \/ a.inf > b.inf
            \/ a.inf = 0 /\ b.inf = 0 /\ a.n > b.n

\* a < b on Python floats/ints
Lt(a, b) == Gt(b, a)

\* ------------------------------------------------------------ dict helpers
\* d.get(k, default)
Get(d, k, default) == IF k \in DOMAIN d THEN d[k] ELSE default

\* str.lower() on the sense strings used here
Lower(s) == CASE s = "MIN" -> "min"
              [] s = "MAX" -> "max"
              [] OTHER     -> s

\* list(lp["vars"].keys())
VarsOf(lp) == [i \in 1..Len(lp.vars) |-> lp.vars[i].name]

\* [lp["vars"][v]["ub"] for v in vars_]
BoundsOf(lp) == [i \in 1..Len(lp.vars) |-> lp.vars[i].ub]

\* range(0, ub + 1, step) as a sequence
Range(ub, step) == [k \in 1..((ub \div step) + 1) |-> (k - 1) * step]

\* itertools.product(*ranges): first range outermost, last varies fastest
RECURSIVE Product(_)
Product(ranges) ==
  IF Len(ranges) = 0 THEN << <<>> >>
  ELSE LET h    == Head(ranges)
           rest == Product(Tail(ranges))
           m    == Len(rest)
       IN  [k \in 1..(Len(h) * m) |->
              <<h[((k - 1) \div m) + 1]>> \o rest[((k - 1) % m) + 1]]

\* dict(zip(vars_, combo))
Zip(vars_, combo) ==
  [v \in {vars_[i] : i \in 1..Len(vars_)} |->
     combo[CHOOSE i \in 1..Len(vars_) : vars_[i] = v]]

\* trial | {var: val}
Union1(trial, var, val) ==
  [v \in DOMAIN trial \cup {var} |-> IF v = var THEN val ELSE trial[v]]

\* every name of vars_ is a key of d (d[v] raises KeyError otherwise)
HasAll(d, vars_) == \A i \in 1..Len(vars_) : vars_[i] \in DOMAIN d

\* sum(coeff.get(v, 0) * trial[v] for v in vars_)
RECURSIVE DotFrom(_, _, _, _)
DotFrom(coeff, trial, vars_, i) ==
  IF i > Len(vars_) THEN 0
  ELSE Get(coeff, vars_[i], 0) * trial[vars_[i]]
       + DotFrom(coeff, trial, vars_, i + 1)

Dot(coeff, trial, vars_) == DotFrom(coeff, trial, vars_, 1)

\* ------------------------------------------------------------- exceptions
Raise(exc, msg) == [exc |-> exc, msg |-> msg]
KeyError(k)     == Raise("KeyError", k)
InfeasibleMsg   == "No feasible solution found."
MissingKeysMsg  == "Parsed JSON missing required keys."
BadJsonMsg      == "LLM did not return valid JSON"

\* the first name of vars_ that d lacks: the key d[v] fails on
FirstMissing(d, vars_) ==
  vars_[CHOOSE i \in 1..Len(vars_) :
          /\ vars_[i] \notin DOMAIN d
          /\ \A j \in 1..(i - 1) : vars_[j] \in DOMAIN d]

\* ---------------------------------------------- brute_force_lp (core.py)
\* best = {"objective": -float("inf")}: no variable values
Sentinel == [vals |-> <<>>, objective |-> NegInf]

\* the feasibility check of one trial: every constraint is read as
\* lhs <= rhs, con["coeff"][v] raises KeyError, the loop breaks at the first
\* violated constraint.  "yes", "no" or "KeyError".
RECURSIVE CoreFeasibleFrom(_, _, _, _)
CoreFeasibleFrom(cons, trial, vars_, i) ==
  IF i > Len(cons) THEN "yes"
  ELSE IF ~HasAll(cons[i].coeff, vars_) THEN "KeyError"
  ELSE IF Dot(cons[i].coeff, trial, vars_) > cons[i].rhs THEN "no"
  ELSE CoreFeasibleFrom(cons, trial, vars_, i + 1)

\* the constraint whose coefficient lookup fails for this trial
RECURSIVE CoreFailingCon(_, _, _, _)
CoreFailingCon(cons, trial, vars_, i) ==
  IF ~HasAll(cons[i].coeff, vars_) THEN cons[i]
  ELSE CoreFailingCon(cons, trial, vars_, i + 1)

\* mutant of CoreBetter: obj >= best["objective"], a later tie replaces the best
CoreBetterOrEqual(obj, best) == ~Gt(best.objective, Num(obj))

\* obj > best["objective"]
CoreBetter(obj, best) == Gt(Num(obj), best.objective)

\* the for loop over the Cartesian product, from combo k on
RECURSIVE CoreLoop(_, _, _, _, _)
CoreLoop(lp, vars_, combos, k, best) ==
  IF k > Len(combos) THEN [exc |-> "none", best |-> best]
  ELSE
    LET trial == Zip(vars_, combos[k]) IN
    IF "constraints" \notin lp.keys THEN KeyError("constraints")
    ELSE
      LET f == CoreFeasibleFrom(lp.constraints, trial, vars_, 1) IN
      IF f = "KeyError"
        THEN KeyError(FirstMissing(
               CoreFailingCon(lp.constraints, trial, vars_, 1).coeff, vars_))
      ELSE IF f = "no" THEN CoreLoop(lp, vars_, combos, k + 1, best)
      ELSE IF "objective" \notin lp.keys THEN KeyError("objective")
      ELSE IF ~HasAll(lp.objective.coeff, vars_)
        THEN KeyError(FirstMissing(lp.objective.coeff, vars_))
      ELSE
        LET obj == Dot(lp.objective.coeff, trial, vars_) IN
        IF CoreBetter(obj, best)
          THEN CoreLoop(lp, vars_, combos, k + 1,
                        [vals |-> trial, objective |-> Num(obj)])
          ELSE CoreLoop(lp, vars_, combos, k + 1, best)

\* one row of the LHS/RHS report
CoreRow(con, best, vars_) ==
  [constraint |-> con.name, lhs |-> Dot(con.coeff, best.vals, vars_),
   rhs |-> con.rhs]

\* the report loop: con["coeff"][v] * best[v] raises KeyError when the
\* mapping or the best dict lacks v
RECURSIVE CoreReport(_, _, _, _, _)
CoreReport(cons, best, vars_, i, rows) ==
  IF i > Len(cons) THEN [exc |-> "none", rows |-> rows]
  ELSE IF ~HasAll(cons[i].coeff, vars_) \/ ~HasAll(best.vals, vars_)
    THEN KeyError(FirstMissing(
           [v \in DOMAIN cons[i].coeff \cap DOMAIN best.vals |-> 0], vars_))
  ELSE CoreReport(cons, best, vars_, i + 1,
                  Append(rows, CoreRow(cons[i], best, vars_)))

\* brute_force_lp(lp, step): what the call returns or raises
brute_force_lp(lp, step) ==
  IF "vars" \notin lp.keys THEN KeyError("vars")
  ELSE
    LET vars_  == VarsOf(lp)
        bounds == BoundsOf(lp)
        combos == Product([i \in 1..Len(bounds) |-> Range(bounds[i], step)])
        found  == CoreLoop(lp, vars_, combos, 1, Sentinel)
    IN
    IF found.exc # "none" THEN found
    ELSE
      LET rep == CoreReport(lp.constraints, found.best, vars_, 1, <<>>) IN
      IF rep.exc # "none" THEN rep
      ELSE [exc |-> "none", best |-> found.best, report |-> rep.rows]

\* ------------------------------------ brute_force_lp_friendly (friendly.py)
\* mutant of Violates: the '>=' test is missing
ViolatesNoGe(sense, lhs, rhs) ==
  \/ sense = "<=" /\ lhs > rhs
  \/ sense = "="  /\ lhs # rhs

\* the sense-specific test of one constraint failing
Violates(sense, lhs, rhs) ==
  \/ sense = "<=" /\ lhs > rhs
  \/ sense = ">=" /\ lhs < rhs
  \/ sense = "="  /\ lhs # rhs

\* _feasible(trial, constraints, vars_), from constraint i on
RECURSIVE FeasibleFrom(_, _, _, _)
FeasibleFrom(trial, constraints, vars_, i) ==
  IF i > Len(constraints) THEN TRUE
  ELSE
    LET con   == constraints[i]
        lhs   == Dot(con.coeff, trial, vars_)
        rhs   == con.rhs
        sense == IF con.sense = NoKey THEN "<=" ELSE con.sense
    IN  IF Violates(sense, lhs, rhs) THEN FALSE
        ELSE FeasibleFrom(trial, constraints, vars_, i + 1)

_feasible(trial, constraints, vars_) == FeasibleFrom(trial, constraints, vars_, 1)

\* mutant of Better: the sense is not consulted
BetterMaxOnly(obj, best_obj, obj_sense) == Gt(Num(obj), best_obj)

\* mutant of Better: >= and <=, a later tie replaces the best
BetterOrEqual(obj, best_obj, obj_sense) ==
  IF obj_sense = "max" THEN ~Lt(Num(obj), best_obj) ELSE ~Gt(Num(obj), best_obj)

\* better = obj > best_obj if obj_sense == "max" else obj < best_obj
Better(obj, best_obj, obj_sense) ==
  IF obj_sense = "max" THEN Gt(Num(obj), best_obj) ELSE Lt(Num(obj), best_obj)

\* recurse(level, trial) with its nonlocal state st = [best_obj, best_soln,
\* counter, exc, msg]; best_soln is <<>> for None and <<dict>> otherwise.
\* c = [lp, vars_, bounds, step, obj_sense] are the enclosing call's locals.
\* RecurseVals is the for loop over range(0, bounds[level] + 1, step) from
\* its k-th value on.  Levels count from 0 as in the source.
RECURSIVE recurse(_, _, _, _)
RECURSIVE RecurseVals(_, _, _, _, _)
recurse(c, level, trial, st) ==
  IF st.exc # "none" THEN st
  ELSE IF level = Len(c.vars_) THEN
    IF "constraints" \notin c.lp.keys
      THEN [st EXCEPT !.exc = "KeyError", !.msg = "constraints"]
    ELSE IF ~_feasible(trial, c.lp.constraints, c.vars_) THEN st
    ELSE
      LET counted == [st EXCEPT !.counter = @ + 1] IN
      IF ~HasAll(c.lp.objective.coeff, c.vars_)
        THEN [counted EXCEPT !.exc = "KeyError",
                             !.msg = FirstMissing(c.lp.objective.coeff, c.vars_)]
      ELSE
        LET obj == Dot(c.lp.objective.coeff, trial, c.vars_) IN
        IF Better(obj, st.best_obj, c.obj_sense)
          THEN [counted EXCEPT !.best_obj = Num(obj), !.best_soln = <<trial>>]
          ELSE counted
  ELSE RecurseVals(c, level, trial, 1, st)

RecurseVals(c, level, trial, k, st) ==
  LET vals == Range(c.bounds[level + 1], c.step) IN
  IF k > Len(vals) \/ st.exc # "none" THEN st
  ELSE RecurseVals(c, level, trial, k + 1,
         recurse(c, level + 1, Union1(trial, c.vars_[level + 1], vals[k]), st))

\* mutant of Slack: the '>=' slack has the sign of the '<=' slack
SlackOneSided(sense, lhs, rhs) == IF sense = "=" THEN 0 ELSE rhs - lhs

\* slack of one report row
Slack(sense, lhs, rhs) ==
  IF sense = "<=" THEN rhs - lhs
  ELSE IF sense = ">=" THEN lhs - rhs
  ELSE 0

\* one row of the constraint report
FriendlyRow(con, best_soln, vars_) ==
  LET lhs   == Dot(con.coeff, best_soln, vars_)
      sense == IF con.sense = NoKey THEN "<=" ELSE con.sense
  IN  [constraint |-> con.name, lhs |-> lhs, rhs |-> con.rhs,
       sense |-> sense, slack |-> Slack(sense, lhs, con.rhs)]

\* rows of the constraint report, in constraint order
FriendlyReport(constraints, best_soln, vars_) ==
  [i \in 1..Len(constraints) |-> FriendlyRow(constraints[i], best_soln, vars_)]

\* brute_force_lp_friendly(lp, step): what the call returns or raises
brute_force_lp_friendly(lp, step) ==
  IF "vars" \notin lp.keys THEN KeyError("vars")
  ELSE IF "objective" \notin lp.keys THEN KeyError("objective")
  ELSE
    LET vars_     == VarsOf(lp)
        bounds    == BoundsOf(lp)
        obj_sense == Lower(IF lp.objective.sense = NoKey THEN "max"
                                                         ELSE lp.objective.sense)
        c   == [lp |-> lp, vars_ |-> vars_, bounds |-> bounds, step |-> step,
                obj_sense |-> obj_sense]
        st0 == [best_obj  |-> IF obj_sense = "max" THEN NegInf ELSE PosInf,
                best_soln |-> <<>>, counter |-> 0, exc |-> "none", msg |-> ""]
        st  == recurse(c, 0, <<>>, st0)
    IN
    IF st.exc # "none" THEN Raise(st.exc, st.msg)
    ELSE IF st.best_soln = <<>> THEN Raise("ValueError", InfeasibleMsg)
    ELSE [exc |-> "none",
          best |-> [vals |-> st.best_soln[1], objective |-> st.best_obj],
          report |-> FriendlyReport(lp.constraints, st.best_soln[1], vars_),
          counter |-> st.counter]

\* ------------------------------------------------------ sample_lp (core.py)
TopK == 10

\* any(sum(con["coeff"][v] * trial[v] ...) > con["rhs"] for con in ...):
\* "yes" (feasible), "no", or "KeyError"; any() stops at the first violation
RECURSIVE SampleFeasibleFrom(_, _, _, _)
SampleFeasibleFrom(cons, trial, vars_, i) ==
  IF i > Len(cons) THEN "yes"
  ELSE IF ~HasAll(cons[i].coeff, vars_) THEN "KeyError"
  ELSE IF Dot(cons[i].coeff, trial, vars_) > cons[i].rhs THEN "no"
  ELSE SampleFeasibleFrom(cons, trial, vars_, i + 1)

\* the sampling loop over the draws of the generator, from draw k on
RECURSIVE SampleLoop(_, _, _, _, _)
SampleLoop(lp, vars_, draws, k, rows) ==
  IF k > Len(draws) THEN [exc |-> "none", rows |-> rows]
  ELSE
    LET trial == draws[k] IN
    IF "constraints" \notin lp.keys THEN KeyError("constraints")
    ELSE
      LET f == SampleFeasibleFrom(lp.constraints, trial, vars_, 1) IN
      IF f = "KeyError"
        THEN KeyError(FirstMissing(
               CoreFailingCon(lp.constraints, trial, vars_, 1).coeff, vars_))
      ELSE IF f = "no" THEN SampleLoop(lp, vars_, draws, k + 1, rows)
      ELSE IF "objective" \notin lp.keys THEN KeyError("objective")
      ELSE IF ~HasAll(lp.objective.coeff, vars_)
        THEN KeyError(FirstMissing(lp.objective.coeff, vars_))
      ELSE SampleLoop(lp, vars_, draws, k + 1,
             Append(rows, [vals |-> trial,
                           objective |-> Dot(lp.objective.coeff, trial, vars_)]))

\* insert row r into a sequence sorted by objective, descending, after the
\* rows of equal objective
RECURSIVE InsertDesc(_, _)
InsertDesc(sorted, r) ==
  IF sorted = <<>> THEN <<r>>
  ELSE IF r.objective > Head(sorted).objective THEN <<r>> \o sorted
  ELSE <<Head(sorted)>> \o InsertDesc(Tail(sorted), r)

\* .sort_values("objective", ascending=False); the order of rows of equal
\* objective is the order of the draws
RECURSIVE SortDesc(_)
SortDesc(rows) ==
  IF rows = <<>> THEN <<>>
  ELSE InsertDesc(SortDesc(SubSeq(rows, 1, Len(rows) - 1)), rows[Len(rows)])

\* mutant of Head_: no truncation
HeadAll(rows, n) == rows

\* .head(n)
Head_(rows, n) == SubSeq(rows, 1, IF Len(rows) < n THEN Len(rows) ELSE n)

\* sample_lp(lp, num_samples, seed): draws is what the seeded generator
\* yields, one trial per sample.  pd.DataFrame([]) has no column
\* "objective", so sort_values raises KeyError on an empty list of rows.
sample_lp(lp, draws) ==
  IF "vars" \notin lp.keys THEN KeyError("vars")
  ELSE
    LET got == SampleLoop(lp, VarsOf(lp), draws, 1, <<>>) IN
    IF got.exc # "none" THEN got
    ELSE IF got.rows = <<>> THEN KeyError("objective")
    ELSE [exc |-> "none", rows |-> Head_(SortDesc(got.rows), TopK)]

\* ------------------------------- parse_word_problem, solve_lp_from_prompt
\* parse_word_problem: the reply of the language model is either text that
\* json.loads rejects or the description lp; then the light validation
parse_word_problem(valid_json, lp) ==
  IF ~valid_json THEN Raise("ValueError", BadJsonMsg)
  ELSE IF Keys \subseteq lp.keys THEN [exc |-> "none", lp |-> lp]
  ELSE Raise("ValueError", MissingKeysMsg)

\* solve_lp_from_prompt(prompt, step)
solve_lp_from_prompt(valid_json, lp, step) ==
  LET parsed == parse_word_problem(valid_json, lp) IN
  IF parsed.exc # "none" THEN parsed
  ELSE LET r == brute_force_lp(parsed.lp, step) IN
       IF r.exc # "none" THEN r
       ELSE [exc |-> "none", lp |-> parsed.lp, best |-> r.best,
             report |-> r.report]

\* ------------------------------------------------- problem descriptions
ConNames == <<"c1", "c2">>

\* declarations of the first n names, every upper bound in ubs
VarDecls(n, ubs) ==
  {[i \in 1..n |-> [name |-> VarNames[i], ub |-> u[i]]] : u \in [1..n -> ubs]}

NameSet(n) == {VarNames[i] : i \in 1..n}

\* coefficient mappings listing exactly the names of D, values in C
Complete(D, C) == [D -> C]

\* coefficient mappings listing any of the names of D
Partial(D) == UNION {[S -> CoeffVals] : S \in SUBSET D}

\* objectives, and sequences of k constraints over the mappings M and the
\* right-hand sides R
Objectives(senses, M) == [sense : senses, coeff : M]

ConSeqs(M, R, k) ==
  {[i \in 1..k |-> [name |-> ConNames[i], coeff |-> b[i].coeff,
                    sense |-> b[i].sense, rhs |-> b[i].rhs]] :
     b \in [1..k -> [coeff : M, sense : ConSenses, rhs : R]]}

Describe(decls, objs, cons) ==
  [keys : {Keys}, vars : decls, objective : objs, constraints : cons]

\* descriptions of n variables and k constraints whose mappings list every
\* declared variable
WellFormed(n, k, senses) ==
  Describe(VarDecls(n, 0..MaxUb),
           Objectives(senses, Complete(NameSet(n), CoeffVals)),
           ConSeqs(Complete(NameSet(n), CoeffVals), RhsVals, k))

\* descriptions of one variable and two constraints, no coefficient 0
TwoConstraints ==
  Describe(VarDecls(1, 0..MaxUb),
           Objectives({NoKey, "min"}, Complete(NameSet(1), CoeffVals)),
           ConSeqs(Complete(NameSet(1), CoeffVals \ {0}), {0, 1}, 2))

\* descriptions of n variables (upper bound OddUb) and at most one
\* constraint whose mappings list any of the names of VarNames: they may
\* omit a declared variable and may name an undeclared one
OddUb == 1
Odd(n) ==
  Describe(VarDecls(n, {OddUb}),
           Objectives({NoKey, "min"}, Partial(NameSet(Len(VarNames)))),
           ConSeqs(Partial(NameSet(Len(VarNames))), {0, 1}, 0)
             \cup ConSeqs(Partial(NameSet(Len(VarNames))), {0, 1}, 1))

\* a description without the keys of K
Drop(d, K) ==
  [keys        |-> d.keys \ K,
   vars        |-> IF "vars" \in K THEN <<>> ELSE d.vars,
   objective   |-> IF "objective" \in K
                     THEN [sense |-> NoKey, coeff |-> <<>>] ELSE d.objective,
   constraints |-> IF "constraints" \in K THEN <<>> ELSE d.constraints]

\* descriptions that lack top-level keys
Lacking ==
  {Drop(d, K) :
     d \in Describe(VarDecls(1, {OddUb}),
                    Objectives({NoKey}, Complete(NameSet(1), CoeffVals)),
                    ConSeqs(Complete(NameSet(1), CoeffVals), {0, 1}, 1)),
     K \in (SUBSET Keys) \ {{}}}

Descriptions ==
  WellFormed(0, 0, ObjSenses) \cup WellFormed(0, 1, ObjSenses)
    \cup WellFormed(0, 2, ObjSenses)
    \cup WellFormed(1, 0, ObjSenses) \cup WellFormed(1, 1, ObjSenses)
    \cup WellFormed(2, 0, ObjSenses) \cup WellFormed(2, 1, {"max", "min"})
    \cup TwoConstraints \cup Odd(1) \cup Odd(2) \cup Lacking

\* ------------------------------------------------------------ the machine
VARIABLES lp, call
vars == <<lp, call>>

NoCall == [fn |-> "none"]

Init == lp \in Descriptions /\ call = NoCall

\* a caller runs brute_force_lp(lp, step)
BruteForceLp ==
  /\ call = NoCall
  /\ \E step \in 1..MaxStep :
       call' = [fn |-> "brute_force_lp", step |-> step,
                out |-> brute_force_lp(lp, step)]
  /\ UNCHANGED lp

\* a caller runs brute_force_lp_friendly(lp, step)
BruteForceLpFriendly ==
  /\ call = NoCall
  /\ \E step \in 1..MaxStep :
       call' = [fn |-> "brute_force_lp_friendly", step |-> step,
                out |-> brute_force_lp_friendly(lp, step)]
  /\ UNCHANGED lp

\* a caller runs solve_lp_from_prompt(prompt, step); the language model
\* answers the prompt with lp or with text that is no JSON
SolveLpFromPrompt ==
  /\ call = NoCall
  /\ \E step \in 1..MaxStep, valid_json \in BOOLEAN :
       call' = [fn |-> "solve_lp_from_prompt", step |-> step,
                out |-> solve_lp_from_prompt(valid_json, lp, step)]
  /\ UNCHANGED lp

Next == BruteForceLp \/ BruteForceLpFriendly \/ SolveLpFromPrompt

Spec == Init /\ [][Next]_vars

\* ------------------------------------------------ the machine of sample_lp
\* descriptions sampled MaxSamples times: one variable of two values, a
\* coefficient 1 or -1 in the objective
LongRun ==
  Describe(VarDecls(1, {1}),
           Objectives({NoKey}, Complete(NameSet(1), CoeffVals \ {0})),
           ConSeqs(Complete(NameSet(1), CoeffVals), {0}, 0)
             \cup ConSeqs(Complete(NameSet(1), CoeffVals), {0}, 1))

\* descriptions sampled at most MaxShort times: two variables, or one
\* variable and mappings that list any of the names of VarNames
ShortRun ==
  Describe(VarDecls(2, {0, 1}),
           Objectives({NoKey}, Complete(NameSet(2), CoeffVals)),
           ConSeqs(Complete(NameSet(2), CoeffVals), {0, 1}, 0)
             \cup ConSeqs(Complete(NameSet(2), CoeffVals), {0, 1}, 1))
    \cup
  Describe(VarDecls(1, {OddUb}),
           Objectives({NoKey}, Partial(NameSet(Len(VarNames)))),
           ConSeqs(Partial(NameSet(Len(VarNames))), {0, 1}, 0)
             \cup ConSeqs(Partial(NameSet(Len(VarNames))), {0, 1}, 1))

SampleCounts(d) ==
  (0..MaxShort) \cup (IF d \in LongRun THEN {MaxSamples} ELSE {})

\* what one draw can be: rng.integers(0, ub + 1) for every variable
Trials(d) ==
  LET combos == Product([i \in 1..Len(d.vars) |-> Range(d.vars[i].ub, 1)])
  IN  {Zip(VarsOf(d), combos[k]) : k \in 1..Len(combos)}

InitSample == lp \in LongRun \cup ShortRun /\ call = NoCall

\* a caller runs sample_lp(lp, num_samples, seed); the seed fixes the draws
SampleLp ==
  /\ call = NoCall
  /\ \E n \in SampleCounts(lp) :
       \E draws \in [1..n -> Trials(lp)] :
         call' = [fn |-> "sample_lp", num_samples |-> n, draws |-> draws,
                  out |-> sample_lp(lp, draws)]
  /\ UNCHANGED lp

NextSample == SampleLp

SpecSample == InitSample /\ [][NextSample]_vars

\* ==================================================== reference notions
\* What the properties below are stated with: the grid, the constraints and
\* the objective by their definitions, not by the searches' loops.
Names(d) == {d.vars[i].name : i \in 1..Len(d.vars)}

UbOf(d, v) == d.vars[CHOOSE i \in 1..Len(d.vars) : d.vars[i].name = v].ub

TopUb(d) == IF d.vars = <<>> THEN 0
            ELSE CHOOSE m \in {d.vars[i].ub : i \in 1..Len(d.vars)} :
                   \A i \in 1..Len(d.vars) : d.vars[i].ub <= m

\* the grid: every variable in {0, step, 2*step, ... <= ub}
GridPoints(d, step) ==
  {t \in [Names(d) -> 0..TopUb(d)] :
     \A v \in Names(d) : t[v] <= UbOf(d, v) /\ t[v] % step = 0}

\* sum over the variables of S of coeff[v] * t[v], an absent coefficient 0
RECURSIVE SetSum(_, _, _)
SetSum(S, coeff, t) ==
  IF S = {} THEN 0
  ELSE LET v == CHOOSE w \in S : TRUE
       IN  (IF v \in DOMAIN coeff THEN coeff[v] ELSE 0) * t[v]
           + SetSum(S \ {v}, coeff, t)

Value(coeff, t) == SetSum(DOMAIN t, coeff, t)

\* a constraint holds under its declared sense ('<=' when absent)
Holds(con, t) ==
  LET lhs == Value(con.coeff, t) IN
  CASE con.sense \in {"<=", NoKey} -> lhs <= con.rhs
    [] con.sense = ">="            -> lhs >= con.rhs
    [] con.sense = "="             -> lhs = con.rhs

Feasible(d, t) == \A i \in 1..Len(d.constraints) : Holds(d.constraints[i], t)

\* every constraint read as lhs <= rhs, whatever its sense
LeFeasible(d, t) ==
  \A i \in 1..Len(d.constraints) :
     Value(d.constraints[i].coeff, t) <= d.constraints[i].rhs

\* the same set, listed
Listed(S) == {t : t \in S}

FeasibleSet(d, step)   == Listed({t \in GridPoints(d, step) : Feasible(d, t)})
LeFeasibleSet(d, step) == Listed({t \in GridPoints(d, step) : LeFeasible(d, t)})

ObjOf(d, t) == Value(d.objective.coeff, t)

DeclaredMax(d) == d.objective.sense \in {NoKey, "max"}
DeclaredMin(d) == d.objective.sense = "min"

\* the largest and the smallest objective over the assignments of S
MaxOver(d, S) == LET V == {ObjOf(d, t) : t \in S}
                 IN  CHOOSE n \in V : \A m \in V : m <= n
MinOver(d, S) == LET V == {ObjOf(d, t) : t \in S}
                 IN  CHOOSE n \in V : \A m \in V : m >= n
OptOver(d, S) == IF DeclaredMin(d) THEN MinOver(d, S) ELSE MaxOver(d, S)

\* the assignments of S that attain the maximum, the declared optimum
Maxima(d, S) == LET best == MaxOver(d, S)
                IN  Listed({t \in S : ObjOf(d, t) = best})
Optima(d, S) == LET best == OptOver(d, S)
                IN  Listed({t \in S : ObjOf(d, t) = best})

\* t comes before u in the enumeration: the first declared variable is the
\* slowest, every variable ascends
Before(d, t, u) ==
  \E i \in 1..Len(d.vars) :
     /\ t[d.vars[i].name] < u[d.vars[i].name]
     /\ \A j \in 1..(i - 1) : t[d.vars[j].name] = u[d.vars[j].name]

FirstOf(d, S, t) == t \in S /\ \A u \in S \ {t} : Before(d, t, u)

\* the description has its three keys, declares max or min (or no sense),
\* and every mapping lists exactly the declared variables
Regular(d) ==
  /\ d.keys = Keys
  /\ d.objective.sense \in {NoKey, "max", "min"}
  /\ DOMAIN d.objective.coeff = Names(d)
  /\ \A i \in 1..Len(d.constraints) : DOMAIN d.constraints[i].coeff = Names(d)

\* max objective, '<=' constraints only
Plain(d) ==
  /\ Regular(d) /\ DeclaredMax(d)
  /\ \A i \in 1..Len(d.constraints) : d.constraints[i].sense \in {"<=", NoKey}

Friendly == call.fn = "brute_force_lp_friendly"
Core     == call.fn \in {"brute_force_lp", "solve_lp_from_prompt"}
Sampled  == call.fn = "sample_lp"
Returned == call.fn # "none" /\ call.out.exc = "none"

\* the call returned a best assignment the search found (not the dict
\* {"objective": -inf} of brute_force_lp, which holds no variable values)
FoundBest == (Friendly \/ Core) /\ Returned /\ call.out.best.objective.inf = 0

\* brute_force_lp ran: directly, or after parse_word_problem accepted the reply
SearchRan ==
  \/ call.fn = "brute_force_lp"
  \/ /\ call.fn = "solve_lp_from_prompt"
     /\ ~(call.out.exc = "ValueError" /\ call.out.msg = BadJsonMsg)

\* ================================================================ claims

\* C1 as claimed: on a description with a feasible grid point, the objective
\* either exhaustive search returns is the maximum (sense max) or minimum
\* (sense min) of the objective over the grid assignments that satisfy every
\* constraint under its own sense.  Stated for the descriptions that
\* declare a variable.
C1_AsClaimed ==
  ((Friendly \/ Core) /\ Returned /\ Regular(lp) /\ lp.vars # <<>>)
  => LET S == FeasibleSet(lp, call.step)
     IN  S # {} => call.out.best.objective = Num(OptOver(lp, S))

\* C1 amended: brute_force_lp_friendly returns that optimum whenever a
\* feasible grid point exists; brute_force_lp reads every constraint as
\* lhs <= rhs and always maximises: it returns the maximum of the objective
\* over the grid assignments with lhs <= rhs for every constraint, whenever
\* one exists.
C1_Optimum ==
  /\ (Friendly /\ Regular(lp))
     => LET S == FeasibleSet(lp, call.step)
        IN  S # {} => /\ Returned
                      /\ call.out.best.objective = Num(OptOver(lp, S))
  /\ (SearchRan /\ Regular(lp))
     => LET S == LeFeasibleSet(lp, call.step)
        IN  S # {} => /\ Returned
                      /\ call.out.best.objective = Num(MaxOver(lp, S))

\* C1 witness: a minimisation under a '>=' constraint on a grid of step 2,
\* where a grid point the constraint excludes has a smaller objective
C1_Witness ==
  /\ Friendly /\ Returned /\ Regular(lp) /\ DeclaredMin(lp)
  /\ call.step = 2 /\ Len(lp.vars) = 2
  /\ \E i \in 1..Len(lp.constraints) : lp.constraints[i].sense = ">="
  /\ \E t \in GridPoints(lp, 2) \ FeasibleSet(lp, 2) :
        ObjOf(lp, t) < call.out.best.objective.n

\* C2 as claimed: the best assignment either exhaustive search returns
\* satisfies every constraint under the constraint's declared sense.
\* Stated for the descriptions that declare a variable.
C2_AsClaimed ==
  (FoundBest /\ lp.vars # <<>>) => Feasible(lp, call.out.best.vals)

\* C2 amended: the best assignment brute_force_lp_friendly returns is a grid
\* point that satisfies every constraint under its declared sense; the one
\* brute_force_lp returns is a grid point with lhs <= rhs for every
\* constraint, whatever the declared sense.
C2_Satisfies ==
  /\ (Friendly /\ FoundBest)
     => /\ call.out.best.vals \in GridPoints(lp, call.step)
        /\ Feasible(lp, call.out.best.vals)
  /\ (Core /\ FoundBest)
     => /\ call.out.best.vals \in GridPoints(lp, call.step)
        /\ LeFeasible(lp, call.out.best.vals)

\* C2 witness: a best assignment under an '=' constraint that excludes a
\* grid point of better objective
C2_Witness ==
  /\ Friendly /\ FoundBest /\ Regular(lp) /\ DeclaredMax(lp)
  /\ \E i \in 1..Len(lp.constraints) : lp.constraints[i].sense = "="
  /\ \E t \in GridPoints(lp, call.step) \ FeasibleSet(lp, call.step) :
        ObjOf(lp, t) > call.out.best.objective.n

\* C3 as claimed: when no grid assignment satisfies all constraints, either
\* exhaustive search ends with the Infeasible error and returns nothing.
C3_AsClaimed ==
  ((Friendly \/ SearchRan) /\ Regular(lp) /\ FeasibleSet(lp, call.step) = {})
  => call.out.exc = "ValueError" /\ call.out.msg = InfeasibleMsg

Fill(d) ==
  LET full(m) == [v \in DOMAIN m \cup Names(d) |-> Get(m, v, 0)]
  IN  [d EXCEPT !.objective.coeff = full(@),
                !.constraints =
                   [i \in 1..Len(@) |-> [@[i] EXCEPT !.coeff = full(@)]]]

\* C7 as claimed: a description whose mappings omit declared variables is
\* searched and evaluated exactly as the description with 0 written for the
\* omitted coefficients, without error.
C7_AsClaimed ==
  lp.keys = Keys
  => /\ call.fn = "brute_force_lp"
        => call.out = brute_force_lp(Fill(lp), call.step)
     /\ Friendly => call.out = brute_force_lp_friendly(Fill(lp), call.step)

\* the description lacks a required key or a mapping names a variable that
\* 'vars' does not declare
Malformed(d) ==
  \/ d.keys # Keys
  \/ ~(DOMAIN d.objective.coeff \subseteq Names(d))
  \/ \E i \in 1..Len(d.constraints) :
        ~(DOMAIN d.constraints[i].coeff \subseteq Names(d))

C9_Report ==
  (Friendly /\ Returned)
  => LET rep == call.out.report
         cons == lp.constraints
     IN  /\ Len(rep) = Len(cons)
         /\ \A i \in 1..Len(cons) :
              LET lhs == Value(cons[i].coeff, call.out.best.vals) IN
              /\ rep[i].constraint = cons[i].name
              /\ rep[i].lhs = lhs
              /\ rep[i].rhs = cons[i].rhs
              /\ rep[i].slack =
                   (CASE cons[i].sense \in {"<=", NoKey} -> cons[i].rhs - lhs
                      [] cons[i].sense = ">="            -> lhs - cons[i].rhs
                      [] cons[i].sense = "="             -> 0)
              /\ rep[i].slack >= 0

\* C9 witness: a report of two rows, a '<=' and a '>=' constraint, both
\* with positive slack
C9_Witness ==
  /\ Friendly /\ Returned /\ Len(call.out.report) = 2 /\ lp.vars # <<>>
  /\ lp.constraints[1].sense = "<=" /\ lp.constraints[2].sense = ">="
  /\ call.out.report[1].slack > 0 /\ call.out.report[2].slack > 0

\* the rows of a report without sense and slack
Bare(rep) ==
  [i \in 1..Len(rep) |->
     [constraint |-> rep[i].constraint, lhs |-> rep[i].lhs, rhs |-> rep[i].rhs]]

\* C10: on a description with sense max, '<=' constraints, complete
\* mappings and a feasible grid point, brute_force_lp and
\* brute_force_lp_friendly with the same step return the same best
\* assignment and objective, and their reports agree on constraint, lhs, rhs.
C10_Agree ==
  (Plain(lp) /\ (Friendly \/ call.fn = "brute_force_lp"))
  => LET S == FeasibleSet(lp, call.step)
         other == IF Friendly THEN brute_force_lp(lp, call.step)
                              ELSE brute_force_lp_friendly(lp, call.step)
     IN  S # {} => /\ Returned /\ other.exc = "none"
                   /\ call.out.best = other.best
                   /\ Bare(call.out.report) = Bare(other.report)

\* C10 witness: brute_force_lp returned on such a description of two
\* variables where several feasible assignments tie at the maximum and a
\* constraint excludes a grid point
C10_Witness ==
  /\ call.fn = "brute_force_lp" /\ Plain(lp) /\ Returned
  /\ Len(lp.vars) = 2 /\ Len(lp.constraints) = 1
  /\ Cardinality(Maxima(lp, FeasibleSet(lp, call.step))) >= 2
  /\ FeasibleSet(lp, call.step) # GridPoints(lp, call.step)
  /\ call.out.best.objective.n > 0

\* the draws of the call
Drawn == {call.draws[k] : k \in 1..Len(call.draws)}

\* C5 as claimed: sample_lp returns at most 10 rows, each one of the drawn
\* assignments with every variable in [0, ub], and every returned row
\* satisfies every constraint under the constraint's declared sense.
C5_AsClaimed ==
  (Sampled /\ Returned)
  => /\ Len(call.out.rows) <= 10
     /\ \A i \in 1..Len(call.out.rows) :
          /\ call.out.rows[i].vals \in Drawn
          /\ call.out.rows[i].vals \in GridPoints(lp, 1)
          /\ Feasible(lp, call.out.rows[i].vals)

\* C5 amended: sample_lp returns at most 10 rows, each one of the drawn
\* assignments with every variable in [0, ub], and every returned row has
\* lhs <= rhs for every constraint, whatever the constraint's declared sense.
C5_Rows ==
  (Sampled /\ Returned)
  => /\ Len(call.out.rows) <= 10
     /\ \A i \in 1..Len(call.out.rows) :
          /\ call.out.rows[i].vals \in Drawn
          /\ call.out.rows[i].vals \in GridPoints(lp, 1)
          /\ LeFeasible(lp, call.out.rows[i].vals)

\* C5 witness: more than 10 draws pass the test and one does not; 10 rows
\* are returned
C5_Witness ==
  /\ Sampled /\ Returned /\ Len(call.out.rows) = 10
  /\ Cardinality({k \in 1..Len(call.draws) : LeFeasible(lp, call.draws[k])})
       > 10
  /\ \E k \in 1..Len(call.draws) : ~LeFeasible(lp, call.draws[k])

\* C6 as claimed: when no draw is feasible (also when there is no draw),
\* sample_lp returns an empty sequence of rows and raises nothing.
C6_AsClaimed ==
  (Sampled /\ Regular(lp) /\ \A t \in Drawn : ~Feasible(lp, t))
  => Returned /\ call.out.rows = <<>>

====
